---- MODULE Spec2Model ----
(***************************************************************************)
(* Model of the prompt-ab-test extension                                   *)
(* (extensions/prompt-ab-test/index.ts): hashString, selectVariant,        *)
(* assignVariant, register with its assignment cache, and the three hook   *)
(* handlers before_prompt_build, agent_end and gateway_start.              *)
(*                                                                         *)
(* Strings are sequences of UTF-16 code units (naturals).  An optional     *)
(* value (a field that may be undefined) is a sequence of length at most   *)
(* one: Undefined when absent, Some(x) when present.                       *)
(***************************************************************************)
EXTENDS Integers, Sequences, FiniteSets, TLC

\* ------------------------------------------------------------------------
\* Bounds of the model
\* ------------------------------------------------------------------------
\* longest raw experiment list drawn for pluginConfig.experiments
MaxExperiments == 2

\* longest variant list handed to selectVariant directly
MaxVariants == 3

\* longest string handed to hashString directly
MaxHashLen == 5

\* ------------------------------------------------------------------------
\* Strings and optional values
\* ------------------------------------------------------------------------
Undefined == <<>>
Some(x) == <<x>>
Get(o) == o[1]
\* JS: a ?? b
Coalesce(a, b) == IF a = Undefined THEN b ELSE a

\* String.prototype.trim: strip leading and trailing white space
WhiteSpace == {9, 10, 11, 12, 13, 32}
RECURSIVE TrimStart(_)
TrimStart(s) ==
  IF s # <<>> /\ Head(s) \in WhiteSpace THEN TrimStart(Tail(s)) ELSE s
RECURSIVE TrimEnd(_)
TrimEnd(s) ==
  IF s # <<>> /\ s[Len(s)] \in WhiteSpace
    THEN TrimEnd(SubSeq(s, 1, Len(s) - 1)) ELSE s
Trim(s) == TrimEnd(TrimStart(s))

\* Array.prototype.join
RECURSIVE Join(_, _)
Join(parts, sep) ==
  IF parts = <<>> THEN <<>>
  ELSE IF Len(parts) = 1 THEN parts[1]
  ELSE parts[1] \o sep \o Join(Tail(parts), sep)

\* template-literal rendering of an integer
RECURSIVE DigitsOf(_)
DigitsOf(n) ==
  IF n < 10 THEN <<48 + n>> ELSE DigitsOf(n \div 10) \o <<48 + (n % 10)>>
NumStr(n) == IF n < 0 THEN <<45>> \o DigitsOf(0 - n) ELSE DigitsOf(n)

\* String.prototype.includes
Includes(s, sub) ==
  \E i \in 0..(Len(s) - Len(sub)) : SubSeq(s, i + 1, i + Len(sub)) = sub

\* ------------------------------------------------------------------------
\* hashString (unsigned 32-bit arithmetic on two 16-bit halves)
\* ------------------------------------------------------------------------
Two16 == 65536

RECURSIVE BitXor(_, _)
BitXor(a, b) ==
  IF a = 0 THEN b
  ELSE IF b = 0 THEN a
  ELSE (((a % 2) + (b % 2)) % 2) + 2 * BitXor(a \div 2, b \div 2)

\* a 32-bit unsigned value is [hi, lo], value = hi * 2^16 + lo
U32(hi, lo) == [hi |-> hi, lo |-> lo]


\* mutant of HashStep: the upper half is not cut to 16 bits
HashStepUntruncated(hash, c) ==
  U32(BitXor(hash.hi * 33 + ((hash.lo * 33) \div Two16), c \div Two16),
      BitXor((hash.lo * 33) % Two16, c % Two16))

\* mutant of HashStep: the code unit is added instead of xor-ed
HashStepAdd(hash, c) ==
  U32((hash.hi * 33 + (((hash.lo * 33) + c) \div Two16)) % Two16,
      ((hash.lo * 33) + c) % Two16)

\* ((hash * 33) ^ c) >>> 0
HashStep(hash, c) ==
  LET lo33 == hash.lo * 33
      hi33 == hash.hi * 33 + (lo33 \div Two16)
  IN  U32(BitXor(hi33 % Two16, c \div Two16), BitXor(lo33 % Two16, c % Two16))

HashSeed == 5381

RECURSIVE HashFrom(_, _)
HashFrom(hash, str) ==
  IF str = <<>> THEN hash
  ELSE CHOOSE h \in {HashFrom(next, Tail(str)) :
                       next \in {HashStep(hash, Head(str))}} : TRUE

\* a JS number that is NaN or an integer: sign and magnitude hi * 2^16 + lo
Num(nan, neg, hi, lo) == [nan |-> nan, neg |-> neg, hi |-> hi, lo |-> lo]

\* the number a 32-bit unsigned value is returned as
AsNumber(u) == Num(FALSE, FALSE, u.hi, u.lo)

hashString(str) == AsNumber(HashFrom(U32(0, HashSeed), str))

\* ------------------------------------------------------------------------
\* selectVariant
\* ------------------------------------------------------------------------
Buckets == 1000000

\* mutant of Magnitude: the remainder is taken modulo 999_999
MagnitudeShort(seed) ==
  ((((((seed.hi * 256) % (Buckets - 1)) * 256) % (Buckets - 1)) + seed.lo)
     % (Buckets - 1))

\* magnitude % 1_000_000, computed without leaving 32-bit integers
Magnitude(seed) ==
  ((((((seed.hi * 256) % Buckets) * 256) % Buckets) + seed.lo) % Buckets)

\* seed % 1_000_000: NaN for a NaN seed, otherwise the remainder with the
\* sign of the seed (the JS remainder truncates toward zero)
SeedBucket(seed) ==
  IF seed.nan THEN [nan |-> TRUE, val |-> 0]
  ELSE [nan |-> FALSE,
        val |-> IF seed.neg THEN 0 - Magnitude(seed) ELSE Magnitude(seed)]

MaxOf(a, b) == IF a >= b THEN a ELSE b


\* mutant of EffectiveWeight: a negative weight counts with its magnitude
EffectiveWeightAbs(v) ==
  IF v.weight = Undefined THEN 1
  ELSE IF Get(v.weight) < 0 THEN 0 - Get(v.weight) ELSE Get(v.weight)

\* Math.max(0, v.weight ?? 1)
EffectiveWeight(v) == MaxOf(0, Get(Coalesce(v.weight, Some(1))))

weightsOf(variants) == [i \in 1..Len(variants) |-> EffectiveWeight(variants[i])]

RECURSIVE SumSeq(_)
SumSeq(w) == IF w = <<>> THEN 0 ELSE Head(w) + SumSeq(Tail(w))

\* the loop "cumulative += weights[i]; if (position < cumulative) return";
\* position = (bucket / 1_000_000) * totalWeight, compared exactly:
\* position < cumulative  <=>  bucket * totalWeight < cumulative * 1_000_000
\* (for integer weights the double arithmetic of the source gives the same
\* comparison results); a NaN position compares false with everything
RECURSIVE Walk(_, _, _, _, _)
Walk(variants, weights, bucket, i, cumulative) ==
  IF i > Len(variants) THEN variants[Len(variants)]
  ELSE LET c == cumulative + weights[i]
       IN  IF ~bucket.nan /\ bucket.val * SumSeq(weights) < c * Buckets
             THEN variants[i]
             ELSE Walk(variants, weights, bucket, i + 1, c)

Threw == [error |-> "selectVariant: variants array must not be empty"]


\* mutant of selectVariant: a seed without a position (NaN) is an error
selectVariantNaNThrows(variants, seed) ==
  IF Len(variants) = 0 \/ seed.nan THEN Threw
  ELSE IF SumSeq(weightsOf(variants)) <= 0 THEN variants[1]
  ELSE Walk(variants, weightsOf(variants), SeedBucket(seed), 1, 0)

\* mutant of selectVariant: no fallback for a total weight of zero
selectVariantNoZeroFallback(variants, seed) ==
  IF Len(variants) = 0 THEN Threw
  ELSE Walk(variants, weightsOf(variants), SeedBucket(seed), 1, 0)

\* mutant of selectVariant: the walk starts at the second variant
selectVariantSkipFirst(variants, seed) ==
  IF Len(variants) = 0 THEN Threw
  ELSE IF SumSeq(weightsOf(variants)) <= 0 THEN variants[1]
  ELSE Walk(variants, weightsOf(variants), SeedBucket(seed), 2,
            weightsOf(variants)[1])

\* mutant of selectVariant: a total weight of zero is an error
selectVariantZeroThrows(variants, seed) ==
  IF Len(variants) = 0 \/ SumSeq(weightsOf(variants)) <= 0 THEN Threw
  ELSE Walk(variants, weightsOf(variants), SeedBucket(seed), 1, 0)

selectVariant(variants, seed) ==
  IF Len(variants) = 0 THEN Threw
  ELSE IF SumSeq(weightsOf(variants)) <= 0 THEN variants[1]
  ELSE Walk(variants, weightsOf(variants), SeedBucket(seed), 1, 0)

\* the composite string `${sessionKey}:${experimentId}`
Colon == 58
CompositeKey(sessionKey, experimentId) == sessionKey \o <<Colon>> \o experimentId

assignVariant(sessionKey, experimentId, variants) ==
  CHOOSE variant \in
    {selectVariant(variants, seed) :
       seed \in {hashString(CompositeKey(sessionKey, experimentId))}} : TRUE

\* ------------------------------------------------------------------------
\* Configuration values the model draws pluginConfig from
\* ------------------------------------------------------------------------
Variant(id, weight, prependContext, systemPrompt) ==
  [id |-> id, weight |-> weight,
   prependContext |-> prependContext, systemPrompt |-> systemPrompt]

Experiment(id, description, enabled, variants, agentIds) ==
  [id |-> id, description |-> description, enabled |-> enabled,
   variants |-> variants, agentIds |-> agentIds]

StrA == <<97>>
StrAA == <<97, 58, 97>>
StrB == <<98>>
AgentX == <<120>>
AgentY == <<121>>

Control == Variant(<<99>>, Some(1), Undefined, Undefined)

\* two equally weighted variants, no agent filter
ExpA ==
  Experiment(Some(StrA), Undefined, Undefined,
    Some(<<Control,
           Variant(<<118>>, Some(1), Some(<<32, 112, 32>>), Undefined)>>),
    Undefined)

\* an id containing ':', a default weight, restricted to agent "x"
ExpB ==
  Experiment(Some(StrAA), Undefined, Undefined,
    Some(<<Variant(<<119>>, Undefined, Some(<<113>>), Some(<<115>>)),
           Variant(<<122>>, Some(1), Some(<<32>>), Some(<<>>))>>),
    Some(<<AgentX>>))

\* the same id as ExpA, a zero weight, an empty agent list
ExpC ==
  Experiment(Some(StrA), Some(<<100>>), Some(TRUE),
    Some(<<Variant(<<117>>, Some(0), Undefined, Some(<<116>>)),
           Variant(<<107>>, Some(2), Some(<<114>>), Some(<<116, 50>>))>>),
    Some(<<>>))

ExpDisabled ==
  Experiment(Some(StrB), Undefined, Some(FALSE), Some(<<Control>>), Undefined)

ExpBlankId ==
  Experiment(Some(<<32>>), Undefined, Undefined, Some(<<Control>>), Undefined)

ExpNoVariants ==
  Experiment(Some(StrB), Undefined, Undefined, Some(<<>>), Undefined)

\* neither an id nor a variants list
ExpNoId ==
  Experiment(Undefined, Undefined, Undefined, Undefined, Undefined)

\* an id, but no variants field
ExpUnsetVariants ==
  Experiment(Some(StrA), Undefined, Undefined, Undefined, Undefined)

RawExperiments ==
  {ExpA, ExpB, ExpC, ExpDisabled, ExpBlankId, ExpNoVariants, ExpNoId,
   ExpUnsetVariants}

SeqsUpTo(set, n) == UNION {[1..k -> set] : k \in 0..n}

Configs == SeqsUpTo(RawExperiments, MaxExperiments)

\* hook contexts: { sessionKey?, sessionId?, agentId? }
SessionKeys == {Undefined, Some(StrA), Some(StrAA)}
SessionIds == {Undefined, Some(StrAA)}
AgentIds == {Undefined, Some(AgentX), Some(AgentY)}

\* contexts of before_prompt_build
Contexts ==
  [sessionKey : SessionKeys, sessionId : SessionIds, agentId : AgentIds]

\* contexts of agent_end (agentId is not read there); the empty string is a
\* present but falsy sessionKey
EndContexts ==
  [sessionKey : SessionKeys \cup {Some(<<>>)}, sessionId : SessionIds,
   agentId : {Undefined}]

NoContext ==
  [sessionKey |-> Undefined, sessionId |-> Undefined, agentId |-> Undefined]

\* ------------------------------------------------------------------------
\* Log lines
\* ------------------------------------------------------------------------
LogLine(level, msg) == [level |-> level, msg |-> msg]

\* "prompt-ab-test: "
Prefix ==
  <<112, 114, 111, 109, 112, 116, 45, 97, 98, 45, 116, 101, 115,
      116, 58, 32>>

\* "prompt-ab-test: skipping experiment with missing id"
MissingIdMsg ==
  Prefix \o
    <<115, 107, 105, 112, 112, 105, 110, 103, 32, 101, 120, 112,
      101, 114, 105, 109, 101, 110, 116, 32, 119, 105, 116, 104,
      32, 109, 105, 115, 115, 105, 110, 103, 32, 105, 100>>

\* `prompt-ab-test: skipping experiment "${exp.id}" -- must have at least
\* one variant` (the dash is U+2014)
NoVariantMsg(id) ==
  Prefix \o
    <<115, 107, 105, 112, 112, 105, 110, 103, 32, 101, 120, 112,
      101, 114, 105, 109, 101, 110, 116, 32, 34>>
    \o id \o
    <<34, 32, 8212, 32, 109, 117, 115, 116, 32, 104, 97, 118, 101,
      32, 97, 116, 32, 108, 101, 97, 115, 116, 32, 111, 110, 101,
      32, 118, 97, 114, 105, 97, 110, 116>>

\* "prompt-ab-test: no active experiments configured, plugin is idle"
IdleMsg ==
  Prefix \o
    <<110, 111, 32, 97, 99, 116, 105, 118, 101, 32, 101, 120, 112,
      101, 114, 105, 109, 101, 110, 116, 115, 32, 99, 111, 110,
      102, 105, 103, 117, 114, 101, 100, 44, 32, 112, 108, 117,
      103, 105, 110, 32, 105, 115, 32, 105, 100, 108, 101>>

\* `prompt-ab-test: loaded ${n} active experiment(s): ${ids.join(", ")}`
LoadedMsg(active) ==
  Prefix \o
    <<108, 111, 97, 100, 101, 100, 32>>
    \o NumStr(Len(active)) \o
    <<32, 97, 99, 116, 105, 118, 101, 32, 101, 120, 112, 101, 114,
      105, 109, 101, 110, 116, 40, 115, 41, 58, 32>>
    \o Join([i \in 1..Len(active) |-> Get(active[i].id)], <<44, 32>>)

\* `prompt-ab-test: assigned session=${sessionKey} experiment=${experiment.id}
\* -> variant=${variant.id}` (the arrow is U+2192)
AssignedMsg(sessionKey, experiment, variant) ==
  Prefix \o
    <<97, 115, 115, 105, 103, 110, 101, 100, 32, 115, 101, 115,
      115, 105, 111, 110, 61>>
    \o sessionKey \o
    <<32, 101, 120, 112, 101, 114, 105, 109, 101, 110, 116, 61>>
    \o Get(experiment.id) \o
    <<32, 8594, 32, 118, 97, 114, 105, 97, 110, 116, 61>>
    \o variant.id

\* `prompt-ab-test: assignments session=${sessionKey}
\* [${assignments.join(", ")}]`
AssignmentsMsg(sessionKey, assignments) ==
  Prefix \o
    <<97, 115, 115, 105, 103, 110, 109, 101, 110, 116, 115, 32,
      115, 101, 115, 115, 105, 111, 110, 61>>
    \o sessionKey \o <<32, 91>> \o Join(assignments, <<44, 32>>) \o <<93>>

\* `${v.id}(w=${v.weight ?? 1})`
VariantSummary(v) ==
  v.id \o <<40, 119, 61>> \o NumStr(Get(Coalesce(v.weight, Some(1)))) \o <<41>>

\* "no description"
NoDescription ==
  <<110, 111, 32, 100, 101, 115, 99, 114, 105, 112, 116, 105,
      111, 110>>

\* `prompt-ab-test: experiment "${exp.id}" -- ${exp.description ??
\* "no description"} -- variants: [${variantSummary}]`
SummaryMsg(exp) ==
  Prefix \o
    <<101, 120, 112, 101, 114, 105, 109, 101, 110, 116, 32, 34>>
    \o Get(exp.id) \o <<34, 32, 8212, 32>>
    \o Get(Coalesce(exp.description, Some(NoDescription))) \o
    <<32, 8212, 32, 118, 97, 114, 105, 97, 110, 116, 115, 58, 32,
      91>>
    \o Join([i \in 1..Len(Get(exp.variants)) |->
               VariantSummary(Get(exp.variants)[i])], <<44, 32>>)
    \o <<93>>

\* ------------------------------------------------------------------------
\* State
\* ------------------------------------------------------------------------
VARIABLES
  registered,         \* register(api) has run
  activeExperiments,  \* the const activeExperiments of register
  hooks,              \* hook names passed to api.on
  assignmentCache,    \* the Map assignmentCache: composite key -> variant
  call,               \* the latest invocation: hook name, context, raw config
  result,             \* what the latest before_prompt_build returned
  logged,             \* the api.logger lines the latest invocation emitted
  resolvedNow,        \* getVariantForSession results of the latest prompt build
  resolved,           \* history: every getVariantForSession result so far
  built,              \* history: the session keys prompt builds ran under
  pinned,             \* history: one earlier prompt build, its context and result,
                      \* and whether the same context was built again since
  procs,              \* interleaved prompt builds: their position and locals
  args,               \* arguments of a direct call of an exported function
  returned,           \* what that call returned, Undefined before it ran
  counts              \* the tally a run of calls keeps: variant id -> count

vars ==
  <<registered, activeExperiments, hooks, assignmentCache,
    call, result, logged, resolvedNow, resolved, built, pinned, procs,
    args, returned, counts>>

EmptyCache == [k \in {} |-> Undefined]

\* the two prompt builds whose steps SpecRace interleaves
Procs == {1, 2}

IdleProc ==
  [pc |-> "idle", ctx |-> NoContext, index |-> 0, cache |-> EmptyCache,
   resultSystemPrompt |-> Undefined, prependParts |-> <<>>, got |-> <<>>,
   debug |-> <<>>, variant |-> Undefined, overlay |-> Undefined]

HookNames == {"before_prompt_build", "agent_end", "gateway_start"}

\* ------------------------------------------------------------------------
\* register: validation and filtering of the experiments
\* ------------------------------------------------------------------------
\* typeof exp.id === "string" && exp.id.trim()
HasId(exp) == exp.id # Undefined /\ Trim(Get(exp.id)) # <<>>

\* Array.isArray(exp.variants) && exp.variants.length > 0
HasVariants(exp) == exp.variants # Undefined /\ Len(Get(exp.variants)) > 0

IsValidExperiment(exp) == HasId(exp) /\ HasVariants(exp)


\* mutant of IsEnabled: an experiment counts as enabled only when enabled is
\* set to true
IsEnabledStrict(exp) == exp.enabled = Some(TRUE)

\* exp.enabled !== false
IsEnabled(exp) == exp.enabled # Some(FALSE)


\* mutant of ValidationWarnings: an entry without variants gets the
\* missing-id warning
RECURSIVE ValidationWarningsGeneric(_)
ValidationWarningsGeneric(raw) ==
  IF raw = <<>> THEN <<>>
  ELSE (IF ~HasId(Head(raw)) \/ ~HasVariants(Head(raw))
          THEN <<LogLine("warn", MissingIdMsg)>>
        ELSE <<>>)
       \o ValidationWarningsGeneric(Tail(raw))

\* the warnings the filter callback emits, in list order
RECURSIVE ValidationWarnings(_)
ValidationWarnings(raw) ==
  IF raw = <<>> THEN <<>>
  ELSE (IF ~HasId(Head(raw)) THEN <<LogLine("warn", MissingIdMsg)>>
        ELSE IF ~HasVariants(Head(raw))
          THEN <<LogLine("warn", NoVariantMsg(Get(Head(raw).id)))>>
        ELSE <<>>)
       \o ValidationWarnings(Tail(raw))

ValidExperiments(raw) == SelectSeq(raw, IsValidExperiment)

ActiveExperiments(raw) == SelectSeq(ValidExperiments(raw), IsEnabled)

Init ==
  /\ registered = FALSE
  /\ activeExperiments = <<>>
  /\ hooks = {}
  /\ assignmentCache = EmptyCache
  /\ call = [hook |-> "none", ctx |-> NoContext, cfg |-> <<>>]
  /\ result = Undefined
  /\ logged = <<>>
  /\ resolvedNow = <<>>
  /\ resolved = {}
  /\ built = {}
  /\ pinned = Undefined
  /\ procs = [p \in Procs |-> IdleProc]
  /\ args = <<>>
  /\ returned = Undefined
  /\ counts = <<>>


\* mutant of Register: the hooks are registered before the idle check
RegisterHooksFirst(raw) ==
  /\ ~registered
  /\ registered' = TRUE
  /\ activeExperiments' = ActiveExperiments(raw)
  /\ hooks' = HookNames
  /\ logged' = ValidationWarnings(raw)
       \o (IF Len(ActiveExperiments(raw)) = 0
             THEN <<LogLine("info", IdleMsg)>>
             ELSE <<LogLine("info", LoadedMsg(ActiveExperiments(raw)))>>)
  /\ assignmentCache' = EmptyCache
  /\ call' = [hook |-> "register", ctx |-> NoContext, cfg |-> raw]
  /\ result' = Undefined
  /\ resolvedNow' = <<>>
  /\ UNCHANGED <<resolved, built, pinned, procs, args, returned, counts>>

\* register(api), api.pluginConfig.experiments = raw
Register(raw) ==
  /\ ~registered
  /\ registered' = TRUE
  /\ activeExperiments' = ActiveExperiments(raw)
  /\ IF Len(ActiveExperiments(raw)) = 0
       THEN /\ hooks' = {}
            /\ logged' = ValidationWarnings(raw) \o <<LogLine("info", IdleMsg)>>
       ELSE /\ hooks' = HookNames
            /\ logged' = ValidationWarnings(raw)
                 \o <<LogLine("info", LoadedMsg(ActiveExperiments(raw)))>>
  /\ assignmentCache' = EmptyCache
  /\ call' = [hook |-> "register", ctx |-> NoContext, cfg |-> raw]
  /\ result' = Undefined
  /\ resolvedNow' = <<>>
  /\ UNCHANGED <<resolved, built, pinned, procs, args, returned, counts>>

\* ------------------------------------------------------------------------
\* getVariantForSession
\* ------------------------------------------------------------------------
cacheKeyOf(sessionKey, experiment) == CompositeKey(sessionKey, Get(experiment.id))


\* mutant of StoreVariant: the first variant of the pool is stored instead of
\* the one returned
StoreVariantFirst(cache, cacheKey, sessionKey, experiment, variant) ==
  [variant |-> variant,
   cache |-> (cacheKey :> Get(experiment.variants)[1]) @@ cache,
   debug |-> <<LogLine("debug", AssignedMsg(sessionKey, experiment, variant))>>]

\* the miss branch once assignVariant has returned: store, log, return
StoreVariant(cache, cacheKey, sessionKey, experiment, variant) ==
  [variant |-> variant,
   cache |-> (cacheKey :> variant) @@ cache,
   debug |-> <<LogLine("debug", AssignedMsg(sessionKey, experiment, variant))>>]


\* mutant of getVariantForSession: the cache is never read, every call
\* computes and overwrites
getVariantForSessionOverwrite(cache, sessionKey, experiment) ==
  [variant |-> assignVariant(sessionKey, Get(experiment.id), Get(experiment.variants)),
   cache |-> (CompositeKey(sessionKey, Get(experiment.id))
                :> assignVariant(sessionKey, Get(experiment.id),
                                 Get(experiment.variants))) @@ cache,
   debug |-> <<>>]

getVariantForSession(cache, sessionKey, experiment) ==
  IF cacheKeyOf(sessionKey, experiment) \in DOMAIN cache
    THEN [variant |-> cache[cacheKeyOf(sessionKey, experiment)],
          cache |-> cache, debug |-> <<>>]
    ELSE StoreVariant(cache, cacheKeyOf(sessionKey, experiment), sessionKey, experiment,
           assignVariant(sessionKey, Get(experiment.id), Get(experiment.variants)))

\* ------------------------------------------------------------------------
\* before_prompt_build
\* ------------------------------------------------------------------------
\* "anonymous"
Anonymous == <<97, 110, 111, 110, 121, 109, 111, 117, 115>>


\* mutant of BuildSessionKey: sessionId takes precedence over sessionKey
BuildSessionKeyIdFirst(ctx) ==
  Get(Coalesce(Coalesce(ctx.sessionId, ctx.sessionKey),
               Some(<<97, 110, 111, 110, 121, 109, 111, 117, 115>>)))

\* ctx.sessionKey ?? ctx.sessionId ?? "anonymous"
BuildSessionKey(ctx) ==
  Get(Coalesce(Coalesce(ctx.sessionKey, ctx.sessionId), Some(Anonymous)))

InSeq(x, seq) == \E i \in 1..Len(seq) : seq[i] = x


\* mutant of IsSkipped: a request without agentId passes the filter
IsSkippedUnlessMember(experiment, agentId) ==
  /\ experiment.agentIds # Undefined
  /\ Len(Get(experiment.agentIds)) > 0
  /\ agentId # Undefined
  /\ Get(agentId) # <<>>
  /\ ~InSeq(Get(agentId), Get(experiment.agentIds))

\* the agentIds filter: the experiment is skipped (continue)
IsSkipped(experiment, agentId) ==
  /\ experiment.agentIds # Undefined
  /\ Len(Get(experiment.agentIds)) > 0
  /\ \/ agentId = Undefined
     \/ Get(agentId) = <<>>
     \/ ~InSeq(Get(agentId), Get(experiment.agentIds))

\* truthiness of an optional string
Truthy(o) == o # Undefined /\ Get(o) # <<>>


\* mutant of TrimmedPrepend: the text is used as configured, untrimmed
TrimmedPrependRaw(variant) == variant.prependContext

\* variant.prependContext?.trim()
TrimmedPrepend(variant) ==
  IF variant.prependContext = Undefined THEN Undefined
  ELSE Some(Trim(Get(variant.prependContext)))


\* mutant of ApplyVariant: the first systemPrompt found is kept
ApplyVariantFirstWins(acc, got, sessionKey, index) ==
  [cache |-> got.cache,
   resultSystemPrompt |->
     IF acc.resultSystemPrompt = Undefined
          /\ got.variant.systemPrompt # Undefined
          /\ Get(got.variant.systemPrompt) # <<>>
       THEN got.variant.systemPrompt
       ELSE acc.resultSystemPrompt,
   prependParts |->
     IF TrimmedPrepend(got.variant) # Undefined
          /\ Get(TrimmedPrepend(got.variant)) # <<>>
       THEN Append(acc.prependParts, Get(TrimmedPrepend(got.variant)))
       ELSE acc.prependParts,
   got |-> Append(acc.got,
             [exp |-> index, sessionKey |-> sessionKey, variant |-> got.variant]),
   debug |-> acc.debug \o got.debug]

\* the loop body after getVariantForSession has returned got
ApplyVariant(acc, got, sessionKey, index) ==
  [cache |-> got.cache,
   resultSystemPrompt |->
     IF Truthy(got.variant.systemPrompt) THEN got.variant.systemPrompt
     ELSE acc.resultSystemPrompt,
   prependParts |->
     IF Truthy(TrimmedPrepend(got.variant))
       THEN Append(acc.prependParts, Get(TrimmedPrepend(got.variant)))
       ELSE acc.prependParts,
   got |-> Append(acc.got,
             [exp |-> index, sessionKey |-> sessionKey, variant |-> got.variant]),
   debug |-> acc.debug \o got.debug]

\* one iteration of "for (const experiment of activeExperiments)"
ComposeStep(acc, sessionKey, agentId, experiment, index) ==
  IF IsSkipped(experiment, agentId) THEN acc
  ELSE ApplyVariant(acc, getVariantForSession(acc.cache, sessionKey, experiment),
                    sessionKey, index)

RECURSIVE ComposeLoop(_, _, _, _, _)
ComposeLoop(acc, sessionKey, agentId, experiments, index) ==
  IF index > Len(experiments) THEN acc
  ELSE ComposeLoop(ComposeStep(acc, sessionKey, agentId, experiments[index], index),
                   sessionKey, agentId, experiments, index + 1)

EmptyObject == [f \in {} |-> Undefined]

BlankLine == <<10, 10>>


\* mutant of OverlayOf: an object is returned also when nothing was produced
OverlayOfAlways(acc) ==
  Some((IF acc.resultSystemPrompt # Undefined
          THEN [systemPrompt |-> Get(acc.resultSystemPrompt)]
          ELSE [f \in {} |-> Undefined])
       @@ (IF Len(acc.prependParts) > 0
             THEN [prependContext |-> Join(acc.prependParts, <<10, 10>>)]
             ELSE [f \in {} |-> Undefined]))

\* the value the handler returns: Undefined, or Some(object)
OverlayOf(acc) ==
  IF acc.resultSystemPrompt = Undefined /\ Len(acc.prependParts) = 0 THEN Undefined
  ELSE Some((IF acc.resultSystemPrompt # Undefined
               THEN [systemPrompt |-> Get(acc.resultSystemPrompt)] ELSE EmptyObject)
            @@ (IF Len(acc.prependParts) > 0
                  THEN [prependContext |-> Join(acc.prependParts, BlankLine)]
                  ELSE EmptyObject))

Compose(cache, experiments, ctx) ==
  ComposeLoop([cache |-> cache, resultSystemPrompt |-> Undefined,
               prependParts |-> <<>>, got |-> <<>>, debug |-> <<>>],
              BuildSessionKey(ctx), ctx.agentId, experiments, 1)

Range(seq) == {seq[i] : i \in 1..Len(seq)}

\* the handler; pin says whether this invocation is the one pinned records
PromptBuild(ctx, pin) ==
  /\ "before_prompt_build" \in hooks
  /\ \E acc \in {Compose(assignmentCache, activeExperiments, ctx)} :
       /\ assignmentCache' = acc.cache
       /\ result' = OverlayOf(acc)
       /\ logged' = acc.debug
       /\ resolvedNow' = acc.got
       /\ resolved' = resolved \cup Range(acc.got)
       /\ built' = built \cup {BuildSessionKey(ctx)}
       /\ pinned' =
            IF pin
              THEN Some([ctx |-> ctx, overlay |-> OverlayOf(acc), again |-> FALSE])
            ELSE IF pinned # Undefined /\ Get(pinned).ctx = ctx
              THEN Some([Get(pinned) EXCEPT !.again = TRUE])
            ELSE pinned
  /\ call' = [hook |-> "before_prompt_build", ctx |-> ctx, cfg |-> <<>>]
  /\ UNCHANGED <<registered, activeExperiments, hooks, procs, args, returned,
                 counts>>

BeforePromptBuild(ctx) == PromptBuild(ctx, FALSE)


\* mutant of EndSessionKey: the "anonymous" fallback of before_prompt_build
EndSessionKeyAnonymous(ctx) ==
  Coalesce(Coalesce(ctx.sessionKey, ctx.sessionId),
           Some(<<97, 110, 111, 110, 121, 109, 111, 117, 115>>))

\* ------------------------------------------------------------------------
\* agent_end
\* ------------------------------------------------------------------------
\* ctx.sessionKey ?? ctx.sessionId
EndSessionKey(ctx) == Coalesce(ctx.sessionKey, ctx.sessionId)

\* the .map(...).filter(entry !== null) over activeExperiments
RECURSIVE AssignmentEntries(_, _, _)
AssignmentEntries(cache, sessionKey, experiments) ==
  IF experiments = <<>> THEN <<>>
  ELSE LET exp == Head(experiments)
           cacheKey == cacheKeyOf(sessionKey, exp)
       IN  (IF cacheKey \in DOMAIN cache
              THEN <<Get(exp.id) \o <<61>> \o cache[cacheKey].id>>
              ELSE <<>>)
           \o AssignmentEntries(cache, sessionKey, Tail(experiments))


\* mutant of AgentEndLog: one log line per assignment instead of one line
AgentEndLogPerEntry(cache, experiments, ctx) ==
  IF ~Truthy(Coalesce(ctx.sessionKey, ctx.sessionId)) THEN <<>>
  ELSE [i \in 1..Len(AssignmentEntries(cache,
                       Get(Coalesce(ctx.sessionKey, ctx.sessionId)), experiments)) |->
          LogLine("info",
            AssignmentsMsg(Get(Coalesce(ctx.sessionKey, ctx.sessionId)),
              <<AssignmentEntries(cache, Get(Coalesce(ctx.sessionKey, ctx.sessionId)),
                                  experiments)[i]>>))]

AgentEndLog(cache, experiments, ctx) ==
  IF ~Truthy(EndSessionKey(ctx)) THEN <<>>
  ELSE LET assignments ==
             AssignmentEntries(cache, Get(EndSessionKey(ctx)), experiments)
       IN  IF Len(assignments) > 0
             THEN <<LogLine("info",
                            AssignmentsMsg(Get(EndSessionKey(ctx)), assignments))>>
             ELSE <<>>


\* mutant of AgentEndCache: the report assigns the experiments not yet evaluated
AgentEndCacheAssigning(cache, experiments, ctx) ==
  Compose(cache, experiments, ctx).cache

AgentEndCache(cache, experiments, ctx) == cache

AgentEnd(ctx) ==
  /\ "agent_end" \in hooks
  /\ logged' = AgentEndLog(assignmentCache, activeExperiments, ctx)
  /\ assignmentCache' = AgentEndCache(assignmentCache, activeExperiments, ctx)
  /\ call' = [hook |-> "agent_end", ctx |-> ctx, cfg |-> <<>>]
  /\ result' = Undefined
  /\ resolvedNow' = <<>>
  /\ UNCHANGED <<registered, activeExperiments, hooks, resolved, built, pinned,
                 procs, args, returned, counts>>

\* ------------------------------------------------------------------------
\* gateway_start
\* ------------------------------------------------------------------------
GatewayStartLog(experiments) ==
  [i \in 1..Len(experiments) |-> LogLine("info", SummaryMsg(experiments[i]))]

GatewayStart ==
  /\ "gateway_start" \in hooks
  /\ logged' = GatewayStartLog(activeExperiments)
  /\ call' = [hook |-> "gateway_start", ctx |-> NoContext, cfg |-> <<>>]
  /\ result' = Undefined
  /\ resolvedNow' = <<>>
  /\ UNCHANGED <<registered, activeExperiments, hooks,
                 assignmentCache, resolved, built, pinned, procs, args, returned,
                 counts>>

Next ==
  \/ \E raw \in Configs : Register(raw)
  \/ \E ctx \in Contexts : BeforePromptBuild(ctx)
  \/ \E ctx \in EndContexts : AgentEnd(ctx)
  \/ GatewayStart

Spec == Init /\ [][Next]_vars

\* ------------------------------------------------------------------------
\* SpecStable: Spec with one prompt build pinned for later comparison
\* ------------------------------------------------------------------------
\* one list with an id containing ":", a duplicated id and an agent filter
StableConfigs == {<<ExpA, ExpB, ExpC>>}

PinnedPromptBuild(ctx) == pinned = Undefined /\ PromptBuild(ctx, TRUE)

NextStable ==
  \/ \E raw \in StableConfigs : Register(raw)
  \/ \E ctx \in Contexts : BeforePromptBuild(ctx)
  \/ \E ctx \in Contexts : PinnedPromptBuild(ctx)
  \/ \E ctx \in EndContexts : AgentEnd(ctx)
  \/ GatewayStart

SpecStable == Init /\ [][NextStable]_vars

\* ------------------------------------------------------------------------
\* SpecRace: two before_prompt_build calls interleaved at the granularity
\* read store / compute / write store of getVariantForSession
\* ------------------------------------------------------------------------
RaceConfigs == {<<ExpA, ExpB>>, <<ExpA>>}

RaceContexts ==
  [sessionKey : {Some(StrA), Some(StrAA)}, sessionId : {Undefined},
   agentId : {Undefined, Some(AgentX)}]

\* the first experiment at or after index from that the agent filter keeps
RECURSIVE SkipFrom(_, _, _)
SkipFrom(experiments, agentId, from) ==
  IF from > Len(experiments) THEN from
  ELSE IF IsSkipped(experiments[from], agentId)
    THEN SkipFrom(experiments, agentId, from + 1)
  ELSE from

\* mutant of Advance: the loop index does not move on
AdvanceStuck(proc, from) ==
  IF from > 1
    THEN [proc EXCEPT !.pc = "read", !.variant = Undefined, !.index = from - 1]
    ELSE [proc EXCEPT !.pc = "read", !.variant = Undefined,
                      !.index = SkipFrom(activeExperiments, proc.ctx.agentId, from)]

\* move to the next loop iteration, or return when the loop is over
Advance(proc, from) ==
  IF SkipFrom(activeExperiments, proc.ctx.agentId, from) > Len(activeExperiments)
    THEN [proc EXCEPT !.pc = "done", !.index = Len(activeExperiments) + 1,
                      !.variant = Undefined, !.overlay = OverlayOf(proc)]
    ELSE [proc EXCEPT !.pc = "read", !.variant = Undefined,
                      !.index = SkipFrom(activeExperiments, proc.ctx.agentId, from)]

\* the loop body applied to the locals of a process
Applied(proc, got) ==
  [ApplyVariant(proc, got, BuildSessionKey(proc.ctx), proc.index)
     EXCEPT !.cache = EmptyCache] @@ proc

ProcKey(proc) ==
  cacheKeyOf(BuildSessionKey(proc.ctx), activeExperiments[proc.index])

RaceStart(p, ctx) ==
  /\ "before_prompt_build" \in hooks
  /\ procs[p].pc = "idle"
  /\ procs' = [procs EXCEPT ![p] = Advance([IdleProc EXCEPT !.ctx = ctx], 1)]
  /\ UNCHANGED <<registered, activeExperiments, hooks, assignmentCache, call,
                 result, logged, resolvedNow, resolved, built, pinned, args, returned,
                 counts>>

\* const cached = assignmentCache.get(cacheKey); if (cached !== undefined) return
RaceRead(p) ==
  /\ procs[p].pc = "read"
  /\ procs' = [procs EXCEPT ![p] =
       IF ProcKey(procs[p]) \in DOMAIN assignmentCache
         THEN Advance(Applied(procs[p],
                        [variant |-> assignmentCache[ProcKey(procs[p])],
                         cache |-> assignmentCache, debug |-> <<>>]),
                      procs[p].index + 1)
         ELSE [procs[p] EXCEPT !.pc = "compute"]]
  /\ UNCHANGED <<registered, activeExperiments, hooks, assignmentCache, call,
                 result, logged, resolvedNow, resolved, built, pinned, args, returned,
                 counts>>

\* const variant = assignVariant(sessionKey, experiment.id, experiment.variants)
RaceCompute(p) ==
  /\ procs[p].pc = "compute"
  /\ \E variant \in {assignVariant(BuildSessionKey(procs[p].ctx),
                        Get(activeExperiments[procs[p].index].id),
                        Get(activeExperiments[procs[p].index].variants))} :
       procs' = [procs EXCEPT ![p] =
         [procs[p] EXCEPT !.pc = "write", !.variant = Some(variant)]]
  /\ UNCHANGED <<registered, activeExperiments, hooks, assignmentCache, call,
                 result, logged, resolvedNow, resolved, built, pinned, args, returned,
                 counts>>

\* assignmentCache.set(cacheKey, variant); return variant
RaceWrite(p) ==
  /\ procs[p].pc = "write"
  /\ \E got \in {StoreVariant(assignmentCache, ProcKey(procs[p]),
                   BuildSessionKey(procs[p].ctx), activeExperiments[procs[p].index],
                   Get(procs[p].variant))} :
       /\ assignmentCache' = got.cache
       /\ procs' = [procs EXCEPT ![p] =
            Advance(Applied(procs[p], got), procs[p].index + 1)]
  /\ UNCHANGED <<registered, activeExperiments, hooks, call,
                 result, logged, resolvedNow, resolved, built, pinned, args, returned,
                 counts>>

NextRace ==
  \/ \E raw \in RaceConfigs : Register(raw)
  \/ \E p \in Procs : \E ctx \in RaceContexts : RaceStart(p, ctx)
  \/ \E p \in Procs : RaceRead(p)
  \/ \E p \in Procs : RaceCompute(p)
  \/ \E p \in Procs : RaceWrite(p)

SpecRace == Init /\ [][NextRace]_vars

\* ------------------------------------------------------------------------
\* SpecSelect: selectVariant called directly, as the unit tests do
\* ------------------------------------------------------------------------
\* weights of a variant: omitted, negative, zero, positive
SelectWeights == {Undefined, Some(0 - 1), Some(0), Some(1), Some(2)}

\* variant lists of length 0..MaxVariants; the variant at position i has the
\* id "1", "2", ... and no prompt fields
SelectPools ==
  {[i \in 1..Len(ws) |-> Variant(NumStr(i), ws[i], Undefined, Undefined)] :
     ws \in SeqsUpTo(SelectWeights, MaxVariants)}

\* an integer n with |n| < 2^31 as a JS number
IntNum(n) ==
  IF n < 0 THEN Num(FALSE, TRUE, (0 - n) \div Two16, (0 - n) % Two16)
  ELSE Num(FALSE, FALSE, n \div Two16, n % Two16)

NaN == Num(TRUE, FALSE, 0, 0)

\* seeds: NaN, negative, zero, around the bucket boundaries of the pools,
\* beyond 1_000_000 and at 2^32 - 1
SelectSeeds ==
  {NaN, Num(FALSE, FALSE, 65535, 65535)}
    \cup {IntNum(n) : n \in {0 - 1000001, 0 - 1000000, 0 - 500000, 0 - 1, 0, 1,
                              333333, 333334, 499999, 500000, 666667, 999999,
                              1000000, 1500000}}

SelectArgs == [variants : SelectPools, seed : SelectSeeds]

InitSelect ==
  /\ registered = FALSE
  /\ activeExperiments = <<>>
  /\ hooks = {}
  /\ assignmentCache = EmptyCache
  /\ call = [hook |-> "none", ctx |-> NoContext, cfg |-> <<>>]
  /\ result = Undefined
  /\ logged = <<>>
  /\ resolvedNow = <<>>
  /\ resolved = {}
  /\ built = {}
  /\ pinned = Undefined
  /\ procs = [p \in Procs |-> IdleProc]
  /\ args \in SelectArgs
  /\ returned = Undefined
  /\ counts = <<>>

\* selectVariant(args.variants, args.seed)
SelectVariantCall ==
  /\ returned = Undefined
  /\ returned' = Some(selectVariant(args.variants, args.seed))
  /\ UNCHANGED <<registered, activeExperiments, hooks, assignmentCache, call,
                 result, logged, resolvedNow, resolved, built, pinned, procs,
                 args, counts>>

NextSelect == SelectVariantCall

SpecSelect == InitSelect /\ [][NextSelect]_vars

\* ------------------------------------------------------------------------
\* SpecHash: hashString called directly
\* ------------------------------------------------------------------------
\* code units: NUL, ":", "a" and the largest one
HashUnits == {0, 58, 97, 65535}

HashArgs == [str : SeqsUpTo(HashUnits, MaxHashLen)]

InitHash ==
  /\ registered = FALSE
  /\ activeExperiments = <<>>
  /\ hooks = {}
  /\ assignmentCache = EmptyCache
  /\ call = [hook |-> "none", ctx |-> NoContext, cfg |-> <<>>]
  /\ result = Undefined
  /\ logged = <<>>
  /\ resolvedNow = <<>>
  /\ resolved = {}
  /\ built = {}
  /\ pinned = Undefined
  /\ procs = [p \in Procs |-> IdleProc]
  /\ args \in HashArgs
  /\ returned = Undefined
  /\ counts = <<>>

\* hashString(args.str)
HashStringCall ==
  /\ returned = Undefined
  /\ returned' = Some(hashString(args.str))
  /\ UNCHANGED <<registered, activeExperiments, hooks, assignmentCache, call,
                 result, logged, resolvedNow, resolved, built, pinned, procs,
                 args, counts>>

NextHash == HashStringCall

SpecHash == InitHash /\ [][NextHash]_vars

\* ------------------------------------------------------------------------
\* SpecSeedRun: selectVariant called for a run of consecutive seeds, with a
\* tally of the ids returned, as the two ratio tests do
\* ------------------------------------------------------------------------
\* "heavy" with weight 9, "light" with weight 1
HeavyLightPool ==
  <<Variant(<<104, 101, 97, 118, 121>>, Some(9), Undefined, Undefined),
    Variant(<<108, 105, 103, 104, 116>>, Some(1), Undefined, Undefined)>>

\* "a" and "b", weights omitted
DefaultPool ==
  <<Variant(<<97>>, Undefined, Undefined, Undefined),
    Variant(<<98>>, Undefined, Undefined, Undefined)>>

\* for (let seed = 0; seed < 10_000; seed++)
RatioSeeds == 10000

\* for (let seed = 0; seed < 1000; seed++)
DefaultSeeds == 1000

\* a run: the pool, the loop variable seed and the loop limit
SeedRuns ==
  {[variants |-> HeavyLightPool, seed |-> 0, limit |-> RatioSeeds],
   [variants |-> DefaultPool, seed |-> 0, limit |-> DefaultSeeds]}

InitSeedRun ==
  /\ registered = FALSE
  /\ activeExperiments = <<>>
  /\ hooks = {}
  /\ assignmentCache = EmptyCache
  /\ call = [hook |-> "none", ctx |-> NoContext, cfg |-> <<>>]
  /\ result = Undefined
  /\ logged = <<>>
  /\ resolvedNow = <<>>
  /\ resolved = {}
  /\ built = {}
  /\ pinned = Undefined
  /\ procs = [p \in Procs |-> IdleProc]
  /\ args \in SeedRuns
  /\ returned = Undefined
  /\ counts = [id \in {args.variants[i].id : i \in 1..Len(args.variants)} |-> 0]

\* one iteration: counts[selectVariant(pool, seed).id]++
SeedRunStep ==
  /\ args.seed < args.limit
  /\ \E v \in {selectVariant(args.variants, IntNum(args.seed))} :
       /\ returned' = Some(v)
       /\ counts' = [counts EXCEPT ![v.id] = @ + 1]
  /\ args' = [args EXCEPT !.seed = @ + 1]
  /\ UNCHANGED <<registered, activeExperiments, hooks, assignmentCache, call,
                 result, logged, resolvedNow, resolved, built, pinned, procs>>

NextSeedRun == SeedRunStep

SpecSeedRun == InitSeedRun /\ [][NextSeedRun]_vars

\* ------------------------------------------------------------------------
\* SpecLive: register and the three handlers executed statement by
\* statement, two invocations at a time; only the steps of invocation 1 are
\* scheduled fairly
\* ------------------------------------------------------------------------
LiveConfigs ==
  {<<>>, <<ExpA, ExpB>>, <<ExpNoId, ExpC>>, <<ExpDisabled, ExpNoVariants>>}

LiveContexts == RaceContexts

LiveEndContexts ==
  {NoContext,
   [sessionKey |-> Some(StrA), sessionId |-> Undefined, agentId |-> Undefined]}

\* the locals of an invocation: those of before_prompt_build, and cfg,
\* experiments and activeExperiments of register, the list being built by a
\* .map(...) call, and the lines handed to api.logger
LiveProc ==
  IdleProc @@
    [hook |-> "none", cfg |-> <<>>, experiments |-> <<>>, active |-> <<>>,
     inner |-> 0, entries |-> <<>>, lines |-> <<>>]

InitLive ==
  /\ registered = FALSE
  /\ activeExperiments = <<>>
  /\ hooks = {}
  /\ assignmentCache = EmptyCache
  /\ call = [hook |-> "none", ctx |-> NoContext, cfg |-> <<>>]
  /\ result = Undefined
  /\ logged = <<>>
  /\ resolvedNow = <<>>
  /\ resolved = {}
  /\ built = {}
  /\ pinned = Undefined
  /\ procs = [p \in Procs |-> LiveProc]
  /\ args = <<>>
  /\ returned = Undefined
  /\ counts = <<>>

Returned(proc) == proc.pc \in {"idle", "done"}

\* register(api) is entered: const cfg = api.pluginConfig ?? {}
LiveRegisterStart(p, raw) ==
  /\ ~registered
  /\ \A q \in Procs : procs[q].hook # "register"
  /\ procs' = [procs EXCEPT ![p] =
       [LiveProc EXCEPT !.hook = "register", !.cfg = raw, !.pc = "filter",
                        !.index = 1]]
  /\ UNCHANGED <<registered, activeExperiments, hooks, assignmentCache, call,
                 result, logged, resolvedNow, resolved, built, pinned, args,
                 returned, counts>>

\* one call of the callback of (cfg.experiments ?? []).filter(...), or the
\* end of that filter
LiveFilter(p) ==
  /\ procs[p].pc = "filter"
  /\ procs' = [procs EXCEPT ![p] =
       IF procs[p].index > Len(procs[p].cfg)
         THEN [procs[p] EXCEPT !.pc = "enabled", !.index = 1]
         ELSE [procs[p] EXCEPT
                 !.index = @ + 1,
                 !.lines = @ \o ValidationWarnings(<<procs[p].cfg[procs[p].index]>>),
                 !.experiments =
                    @ \o ValidExperiments(<<procs[p].cfg[procs[p].index]>>)]]
  /\ UNCHANGED <<registered, activeExperiments, hooks, assignmentCache, call,
                 result, logged, resolvedNow, resolved, built, pinned, args,
                 returned, counts>>

\* one call of the callback of experiments.filter((exp) => exp.enabled !==
\* false), or the end of that filter
LiveEnabled(p) ==
  /\ procs[p].pc = "enabled"
  /\ procs' = [procs EXCEPT ![p] =
       IF procs[p].index > Len(procs[p].experiments)
         THEN [procs[p] EXCEPT !.pc = "announce"]
         ELSE [procs[p] EXCEPT
                 !.index = @ + 1,
                 !.active =
                    @ \o SelectSeq(<<procs[p].experiments[procs[p].index]>>,
                                   IsEnabled)]]
  /\ UNCHANGED <<registered, activeExperiments, hooks, assignmentCache, call,
                 result, logged, resolvedNow, resolved, built, pinned, args,
                 returned, counts>>

\* if (activeExperiments.length === 0) { info(idle); return }  info(loaded)
LiveAnnounce(p) ==
  /\ procs[p].pc = "announce"
  /\ IF Len(procs[p].active) = 0
       THEN /\ procs' = [procs EXCEPT ![p] =
                 [procs[p] EXCEPT !.pc = "done",
                    !.lines = @ \o <<LogLine("info", IdleMsg)>>]]
            /\ registered' = TRUE
            /\ activeExperiments' = procs[p].active
            /\ logged' = procs[p].lines \o <<LogLine("info", IdleMsg)>>
            /\ call' = [hook |-> "register", ctx |-> NoContext,
                        cfg |-> procs[p].cfg]
       ELSE /\ procs' = [procs EXCEPT ![p] =
                 [procs[p] EXCEPT !.pc = "hooks",
                    !.lines = @ \o <<LogLine("info", LoadedMsg(procs[p].active))>>]]
            /\ UNCHANGED <<registered, activeExperiments, logged, call>>
  /\ UNCHANGED <<hooks, assignmentCache, result, resolvedNow, resolved, built,
                 pinned, args, returned, counts>>

\* const assignmentCache = new Map(); api.on(...) three times; return
LiveHooks(p) ==
  /\ procs[p].pc = "hooks"
  /\ procs' = [procs EXCEPT ![p] = [procs[p] EXCEPT !.pc = "done"]]
  /\ registered' = TRUE
  /\ activeExperiments' = procs[p].active
  /\ hooks' = HookNames
  /\ assignmentCache' = EmptyCache
  /\ logged' = procs[p].lines
  /\ call' = [hook |-> "register", ctx |-> NoContext, cfg |-> procs[p].cfg]
  /\ UNCHANGED <<result, resolvedNow, resolved, built, pinned, args, returned,
                 counts>>

\* before_prompt_build is invoked; the loop steps are RaceRead, RaceCompute
\* and RaceWrite
LiveBuildStart(p, ctx) ==
  /\ "before_prompt_build" \in hooks
  /\ Returned(procs[p])
  /\ procs' = [procs EXCEPT ![p] =
       Advance([LiveProc EXCEPT !.hook = "before_prompt_build", !.ctx = ctx], 1)]
  /\ UNCHANGED <<registered, activeExperiments, hooks, assignmentCache, call,
                 result, logged, resolvedNow, resolved, built, pinned, args,
                 returned, counts>>

\* agent_end is invoked: if (!sessionKey) return
LiveEndStart(p, ctx) ==
  /\ "agent_end" \in hooks
  /\ Returned(procs[p])
  /\ procs' = [procs EXCEPT ![p] =
       [LiveProc EXCEPT !.hook = "agent_end", !.ctx = ctx, !.index = 1,
          !.pc = IF Truthy(EndSessionKey(ctx)) THEN "map" ELSE "done"]]
  /\ UNCHANGED <<registered, activeExperiments, hooks, assignmentCache, call,
                 result, logged, resolvedNow, resolved, built, pinned, args,
                 returned, counts>>

\* one call of the callback of activeExperiments.map(...), with the filter of
\* the null entries, or the end of the map
LiveEndMap(p) ==
  /\ procs[p].pc = "map"
  /\ procs' = [procs EXCEPT ![p] =
       IF procs[p].index > Len(activeExperiments)
         THEN [procs[p] EXCEPT !.pc = "report"]
         ELSE [procs[p] EXCEPT
                 !.index = @ + 1,
                 !.entries =
                    @ \o AssignmentEntries(assignmentCache,
                           Get(EndSessionKey(procs[p].ctx)),
                           <<activeExperiments[procs[p].index]>>)]]
  /\ UNCHANGED <<registered, activeExperiments, hooks, assignmentCache, call,
                 result, logged, resolvedNow, resolved, built, pinned, args,
                 returned, counts>>

\* if (assignments.length > 0) api.logger.info(...)
LiveEndReport(p) ==
  /\ procs[p].pc = "report"
  /\ procs' = [procs EXCEPT ![p] =
       [procs[p] EXCEPT
          !.pc = "done",
          !.lines = IF Len(procs[p].entries) > 0
                      THEN <<LogLine("info",
                               AssignmentsMsg(Get(EndSessionKey(procs[p].ctx)),
                                              procs[p].entries))>>
                      ELSE <<>>]]
  /\ UNCHANGED <<registered, activeExperiments, hooks, assignmentCache, call,
                 result, logged, resolvedNow, resolved, built, pinned, args,
                 returned, counts>>

\* gateway_start is invoked: the for loop over activeExperiments is entered
LiveGatewayStart(p) ==
  /\ "gateway_start" \in hooks
  /\ Returned(procs[p])
  /\ procs' = [procs EXCEPT ![p] =
       [LiveProc EXCEPT !.hook = "gateway_start", !.index = 1, !.inner = 1,
          !.pc = IF Len(activeExperiments) = 0 THEN "done" ELSE "variants"]]
  /\ UNCHANGED <<registered, activeExperiments, hooks, assignmentCache, call,
                 result, logged, resolvedNow, resolved, built, pinned, args,
                 returned, counts>>

\* one call of the callback of exp.variants.map(...)
LiveSummaryVariant(p) ==
  /\ procs[p].pc = "variants"
  /\ procs[p].inner <= Len(Get(activeExperiments[procs[p].index].variants))
  /\ procs' = [procs EXCEPT ![p] =
       [procs[p] EXCEPT
          !.inner = @ + 1,
          !.entries =
             @ \o <<VariantSummary(
                      Get(activeExperiments[procs[p].index].variants)[procs[p].inner])>>]]
  /\ UNCHANGED <<registered, activeExperiments, hooks, assignmentCache, call,
                 result, logged, resolvedNow, resolved, built, pinned, args,
                 returned, counts>>

\* .join(", "), api.logger.info(...), and the next experiment or the end of
\* the loop
LiveSummaryLine(p) ==
  /\ procs[p].pc = "variants"
  /\ procs[p].inner > Len(Get(activeExperiments[procs[p].index].variants))
  /\ procs' = [procs EXCEPT ![p] =
       [procs[p] EXCEPT
          !.pc = IF procs[p].index + 1 > Len(activeExperiments)
                   THEN "done" ELSE "variants",
          !.index = @ + 1,
          !.inner = 1,
          !.entries = <<>>,
          !.lines = @ \o <<LogLine("info",
                             SummaryMsg(activeExperiments[procs[p].index]))>>]]
  /\ UNCHANGED <<registered, activeExperiments, hooks, assignmentCache, call,
                 result, logged, resolvedNow, resolved, built, pinned, args,
                 returned, counts>>

\* an invocation is entered
LiveStart(p) ==
  \/ \E raw \in LiveConfigs : LiveRegisterStart(p, raw)
  \/ \E ctx \in LiveContexts : LiveBuildStart(p, ctx)
  \/ \E ctx \in LiveEndContexts : LiveEndStart(p, ctx)
  \/ LiveGatewayStart(p)

\* the next statement of invocation p
LiveStep(p) ==
  \/ LiveFilter(p)
  \/ LiveEnabled(p)
  \/ LiveAnnounce(p)
  \/ LiveHooks(p)
  \/ RaceRead(p)
  \/ RaceCompute(p)
  \/ RaceWrite(p)
  \/ LiveEndMap(p)
  \/ LiveEndReport(p)
  \/ LiveSummaryVariant(p)
  \/ LiveSummaryLine(p)

NextLive ==
  \/ \E p \in Procs : LiveStart(p)
  \/ \E p \in Procs : LiveStep(p)

\* register and the handlers contain no await: once entered, invocation 1
\* keeps executing; nothing is assumed about invocation 2
SpecLive == InitLive /\ [][NextLive]_vars /\ WF_vars(LiveStep(1))

\* ------------------------------------------------------------------------
\* SpecShift: selectVariant called with a non-negative seed and then with
\* that seed plus 1_000_000
\* ------------------------------------------------------------------------
\* seeds: zero, around the bucket boundaries of the pools, multiples of
\* 1_000_000, 2^31 - 1 and 2^32 - 1
ShiftSeeds ==
  {Num(FALSE, FALSE, 65535, 65535)}
    \cup {IntNum(n) : n \in {0, 1, 333333, 333334, 499999, 500000, 666667,
                              999999, 1000000, 1500000, 2147483647}}

ShiftArgs == [variants : SelectPools, seed : ShiftSeeds]

\* seed + 1_000_000 for a seed >= 0; the sum stays below 2^53 and is exact
PlusBuckets(seed) ==
  Num(FALSE, FALSE, seed.hi + ((seed.lo + Buckets) \div Two16),
      (seed.lo + Buckets) % Two16)

InitShift ==
  /\ registered = FALSE
  /\ activeExperiments = <<>>
  /\ hooks = {}
  /\ assignmentCache = EmptyCache
  /\ call = [hook |-> "none", ctx |-> NoContext, cfg |-> <<>>]
  /\ result = Undefined
  /\ logged = <<>>
  /\ resolvedNow = <<>>
  /\ resolved = {}
  /\ built = {}
  /\ pinned = Undefined
  /\ procs = [p \in Procs |-> IdleProc]
  /\ args \in ShiftArgs
  /\ returned = <<>>
  /\ counts = <<>>

\* selectVariant(args.variants, args.seed)
ShiftCallSeed ==
  /\ Len(returned) = 0
  /\ returned' = <<selectVariant(args.variants, args.seed)>>
  /\ UNCHANGED <<registered, activeExperiments, hooks, assignmentCache, call,
                 result, logged, resolvedNow, resolved, built, pinned, procs,
                 args, counts>>

\* selectVariant(args.variants, args.seed + 1_000_000)
ShiftCallNext ==
  /\ Len(returned) = 1
  /\ returned' =
       Append(returned, selectVariant(args.variants, PlusBuckets(args.seed)))
  /\ UNCHANGED <<registered, activeExperiments, hooks, assignmentCache, call,
                 result, logged, resolvedNow, resolved, built, pinned, procs,
                 args, counts>>

NextShift == ShiftCallSeed \/ ShiftCallNext

SpecShift == InitShift /\ [][NextShift]_vars

\* ------------------------------------------------------------------------
\* Properties
\* ------------------------------------------------------------------------
IsBuild == call.hook = "before_prompt_build"
IsEnd == call.hook = "agent_end"

\* the composite key a recorded getVariantForSession result was looked up under
GotKey(g) == cacheKeyOf(g.sessionKey, activeExperiments[g.exp])

\* the results recorded for one session key
ResolvedFor(sessionKey) == {r \in resolved : r.sessionKey = sessionKey}

\* "<experimentId>=<variantId>"
PairText(experiment, variant) == Get(experiment.id) \o <<61>> \o variant.id

\* C1: session stability. Once a prompt build for a context has returned an
\* overlay, every later prompt build for the same context (sessionKey,
\* sessionId, agentId) returns an equal overlay, whatever was invoked in
\* between for this or other sessions.
SessionStable ==
  (pinned # Undefined /\ IsBuild /\ call.ctx = Get(pinned).ctx)
    => result = Get(pinned).overlay

\* a later build of the pinned context returned an overlay while the store
\* also holds entries of other sessions
SessionStableWitness ==
  /\ pinned # Undefined
  /\ Get(pinned).again
  /\ IsBuild
  /\ call.ctx = Get(pinned).ctx
  /\ result # Undefined
  /\ Cardinality(DOMAIN assignmentCache) > Len(resolvedNow)

PairwiseDistinctIds(experiments) ==
  \A i, j \in 1..Len(experiments) :
    experiments[i].id = experiments[j].id => i = j

\* C2: memoization is transparent. Every variant getVariantForSession returns
\* during a prompt build equals assignVariant(sessionKey, experiment.id,
\* experiment.variants), the value computed without the cache (stated for
\* experiment lists whose ids are pairwise distinct).
MemoTransparent ==
  PairwiseDistinctIds(activeExperiments) =>
    \A i \in 1..Len(resolvedNow) :
      resolvedNow[i].variant =
        assignVariant(resolvedNow[i].sessionKey,
                      Get(activeExperiments[resolvedNow[i].exp].id),
                      Get(activeExperiments[resolvedNow[i].exp].variants))

\* C3: the assignment store grows monotonically. It is empty right after
\* registration, and no step removes an entry or replaces the variant of an
\* existing entry.
StoreMonotone ==
  [][/\ call'.hook = "register" => assignmentCache' = EmptyCache
     /\ \A k \in DOMAIN assignmentCache :
          /\ k \in DOMAIN assignmentCache'
          /\ assignmentCache'[k] = assignmentCache[k]]_vars

\* a prompt build added entries to a store that already held others
StoreMonotoneWitness ==
  /\ IsBuild
  /\ logged # <<>>
  /\ Cardinality(DOMAIN assignmentCache) > Len(logged)

\* C4: the composite key identifies one assignment decision. Two different
\* (sessionKey, experimentId) pairs that were resolved never share a store
\* key.
KeyUnique ==
  \A r1, r2 \in resolved :
    GotKey(r1) = GotKey(r2) =>
      /\ r1.sessionKey = r2.sessionKey
      /\ activeExperiments[r1.exp].id = activeExperiments[r2.exp].id

\* C5: a race on the store is harmless. When two interleaved prompt builds
\* have both returned, the variants they obtained under the same store key
\* are equal and equal to the value stored under that key, as after a
\* sequential execution of the two calls.
RaceHarmless ==
  \A p, q \in Procs :
    (procs[p].pc = "done" /\ procs[q].pc = "done") =>
      \A i \in 1..Len(procs[p].got) : \A j \in 1..Len(procs[q].got) :
        GotKey(procs[p].got[i]) = GotKey(procs[q].got[j]) =>
          /\ procs[p].got[i].variant = procs[q].got[j].variant
          /\ assignmentCache[GotKey(procs[p].got[i])] = procs[p].got[i].variant

\* C6: a session-end report is emitted only for a session that a prompt build
\* resolved an assignment for: without such a build under the session's
\* identity key, agent_end emits no line.
ReportOnlyAfterBuild ==
  (IsEnd /\ logged # <<>>) =>
    \E r \in resolved : Some(r.sessionKey) = EndSessionKey(call.ctx)

\* the i-th smallest element of a set of indices
NthOf(indices, n) ==
  CHOOSE i \in indices : Cardinality({x \in indices : x <= i}) = n

\* the pairs prompt builds resolved under a session key, in experiment order
ResolvedPairs(sessionKey) ==
  LET indices == {r.exp : r \in ResolvedFor(sessionKey)}
  IN  [n \in 1..Cardinality(indices) |->
        PairText(activeExperiments[NthOf(indices, n)],
                 (CHOOSE r \in ResolvedFor(sessionKey) :
                    r.exp = NthOf(indices, n)).variant)]

StoredPairs(sessionKey) ==
  LET indices == {i \in 1..Len(activeExperiments) :
                    cacheKeyOf(sessionKey, activeExperiments[i])
                      \in DOMAIN assignmentCache}
  IN  [n \in 1..Cardinality(indices) |->
        PairText(activeExperiments[NthOf(indices, n)],
                 assignmentCache[cacheKeyOf(sessionKey,
                                   activeExperiments[NthOf(indices, n)])])]

StoreReadOnly ==
  [][/\ call'.hook \in {"agent_end", "gateway_start"}
          => assignmentCache' = assignmentCache
     /\ assignmentCache' # assignmentCache
          => call'.hook = "before_prompt_build"]_vars

\* agent_end reported from a store that lacks an entry for one of the active
\* experiments under the session key
StoreReadOnlyWitness ==
  /\ IsEnd
  /\ logged # <<>>
  /\ \E i \in 1..Len(activeExperiments) :
       cacheKeyOf(Get(EndSessionKey(call.ctx)), activeExperiments[i])
         \notin DOMAIN assignmentCache

StartsWith(s, prefix) ==
  Len(s) >= Len(prefix) /\ SubSeq(s, 1, Len(prefix)) = prefix

\* "prompt-ab-test: assignments session=<key> ["
ReportHead(sessionKey) ==
  <<112, 114, 111, 109, 112, 116, 45, 97, 98, 45, 116, 101, 115, 116, 58, 32,
    97, 115, 115, 105, 103, 110, 109, 101, 110, 116, 115, 32,
    115, 101, 115, 115, 105, 111, 110, 61>> \o sessionKey \o <<32, 91>>

\* C9: agent_end with neither sessionKey nor sessionId does nothing (no log
\* line, store unchanged); otherwise the session it reports is sessionKey
\* when present, else sessionId.
MissingIdentitySkipped ==
  [][call'.hook = "agent_end" =>
       /\ (call'.ctx.sessionKey = Undefined /\ call'.ctx.sessionId = Undefined)
            => (logged' = <<>> /\ assignmentCache' = assignmentCache)
       /\ logged' # <<>> =>
            StartsWith(logged'[1].msg,
              ReportHead(IF call'.ctx.sessionKey # Undefined
                           THEN Get(call'.ctx.sessionKey)
                           ELSE Get(call'.ctx.sessionId)))]_vars

\* agent_end without identity, after anonymous prompt builds were resolved
MissingIdentitySkippedWitness ==
  /\ IsEnd
  /\ call.ctx.sessionKey = Undefined
  /\ call.ctx.sessionId = Undefined
  /\ ResolvedFor(<<97, 110, 111, 110, 121, 109, 111, 117, 115>>) # {}

\* no raw entry is valid and enabled
NoneUsable(raw) ==
  \A i \in 1..Len(raw) :
    \/ raw[i].id = Undefined \/ Trim(Get(raw[i].id)) = <<>>
    \/ raw[i].variants = Undefined \/ Get(raw[i].variants) = <<>>
    \/ raw[i].enabled = Some(FALSE)

\* C10: idle registration. With no valid enabled experiment, register
\* registers no hook and logs an info line containing "idle"; otherwise it
\* registers exactly before_prompt_build, agent_end and gateway_start.
IdleRegistration ==
  registered =>
    IF call.hook = "register" /\ NoneUsable(call.cfg)
      THEN /\ hooks = {}
           /\ \E i \in 1..Len(logged) :
                /\ logged[i].level = "info"
                /\ Includes(logged[i].msg, <<105, 100, 108, 101>>)
      ELSE hooks = {"before_prompt_build", "agent_end", "gateway_start"}

\* registration of a non-empty list of unusable entries
IdleRegistrationWitness ==
  /\ call.hook = "register"
  /\ Len(call.cfg) >= 2
  /\ hooks = {}

\* the entries of seq at the given indices, in the order of seq
SubsequenceAt(seq, indices) ==
  [n \in 1..Cardinality(indices) |-> seq[NthOf(indices, n)]]

IsRegister == call.hook = "register"

\* an entry with a variants list that is not empty
VariantsGiven(exp) == exp.variants # Undefined /\ Get(exp.variants) # <<>>

\* C11 as stated: the active list is exactly the raw entries with a
\* non-empty string id, a non-empty variants list and enabled not false, in
\* configured order.
ActiveAsStated ==
  IsRegister =>
    activeExperiments =
      SubsequenceAt(call.cfg,
        {i \in 1..Len(call.cfg) :
           /\ call.cfg[i].id # Undefined /\ Get(call.cfg[i].id) # <<>>
           /\ VariantsGiven(call.cfg[i])
           /\ call.cfg[i].enabled # Some(FALSE)})

\* an id that is a string with something other than white space in it
IdGiven(exp) ==
  exp.id # Undefined /\ \E i \in 1..Len(Get(exp.id)) : Get(exp.id)[i] \notin WhiteSpace

\* C11 amended: the active list is exactly the raw entries whose id is a
\* string that is not empty after trimming white space, with a non-empty
\* variants list and enabled not explicitly false, in configured order; every
\* other entry (also one whose id is only white space) is dropped.
ActiveExactlyUsable ==
  IsRegister =>
    activeExperiments =
      SubsequenceAt(call.cfg,
        {i \in 1..Len(call.cfg) :
           /\ IdGiven(call.cfg[i])
           /\ VariantsGiven(call.cfg[i])
           /\ call.cfg[i].enabled # Some(FALSE)})

\* registration kept one entry and dropped one whose id is white space only
ActiveExactlyUsableWitness ==
  /\ IsRegister
  /\ Len(call.cfg) = 2
  /\ Len(activeExperiments) = 1
  /\ \E i \in 1..2 :
       /\ call.cfg[i].id # Undefined
       /\ Get(call.cfg[i].id) # <<>>
       /\ ~IdGiven(call.cfg[i])

IsWarning(line) == line.level = "warn"

\* the raw entries the validation drops
DroppedIndices(raw) ==
  {i \in 1..Len(raw) : ~IdGiven(raw[i]) \/ ~VariantsGiven(raw[i])}

\* "missing id"
MissingIdText == <<109, 105, 115, 115, 105, 110, 103, 32, 105, 100>>

\* C12: configuration defects are non-fatal. Registration completes; every
\* raw entry dropped for a missing id or for missing or empty variants
\* produces exactly one warning, in list order, the variants warning quoting
\* the id of the offending experiment; and when a valid enabled entry
\* remains, it is active and the three hooks are registered.
DefectsNonFatal ==
  IsRegister =>
    /\ registered
    /\ Len(SelectSeq(logged, IsWarning)) = Cardinality(DroppedIndices(call.cfg))
    /\ \A n \in 1..Cardinality(DroppedIndices(call.cfg)) :
         IF IdGiven(call.cfg[NthOf(DroppedIndices(call.cfg), n)])
           THEN Includes(SelectSeq(logged, IsWarning)[n].msg,
                  <<34>> \o Get(call.cfg[NthOf(DroppedIndices(call.cfg), n)].id)
                         \o <<34>>)
           ELSE Includes(SelectSeq(logged, IsWarning)[n].msg, MissingIdText)
    /\ \A i \in 1..Len(call.cfg) :
         (i \notin DroppedIndices(call.cfg) /\ call.cfg[i].enabled # Some(FALSE))
           => /\ InSeq(call.cfg[i], activeExperiments)
              /\ hooks = {"before_prompt_build", "agent_end", "gateway_start"}

\* registration warned about an entry without variants and still activated
\* the valid entry next to it
DefectsNonFatalWitness ==
  /\ IsRegister
  /\ Len(call.cfg) = 2
  /\ \E i \in 1..2 : IdGiven(call.cfg[i]) /\ ~VariantsGiven(call.cfg[i])
  /\ Len(SelectSeq(logged, IsWarning)) = 1
  /\ Len(activeExperiments) = 1
  /\ hooks # {}

\* the agent allow-list admits the request: no list, an empty list, or a
\* list that has the request's agentId
Admits(exp, ctx) ==
  \/ exp.agentIds = Undefined
  \/ Get(exp.agentIds) = <<>>
  \/ /\ ctx.agentId # Undefined
     /\ \E k \in 1..Len(Get(exp.agentIds)) :
          Get(exp.agentIds)[k] = Get(ctx.agentId)

\* the latest prompt build evaluated the i-th active experiment
Evaluated(i) == \E n \in 1..Len(resolvedNow) : resolvedNow[n].exp = i

\* the variant the latest prompt build was handed for the i-th experiment
Assigned(i) ==
  resolvedNow[CHOOSE n \in 1..Len(resolvedNow) : resolvedNow[n].exp = i].variant

\* the experiments, in configured order, the latest request is admitted to
AdmittedIndices ==
  {i \in 1..Len(activeExperiments) : Admits(activeExperiments[i], call.ctx)}

\* C13: agent allow-list. In a prompt build, an experiment with a non-empty
\* agentIds list is evaluated only if the request carries an agentId that is
\* in the list, and it is evaluated when the request carries such an
\* agentId; an experiment with no list or an empty list is evaluated for
\* every request; when every experiment is skipped nothing is returned.
AgentAllowList ==
  IsBuild =>
    /\ \A i \in 1..Len(activeExperiments) :
         IF /\ activeExperiments[i].agentIds # Undefined
            /\ Get(activeExperiments[i].agentIds) # <<>>
           THEN /\ Evaluated(i) =>
                     /\ call.ctx.agentId # Undefined
                     /\ InSeq(Get(call.ctx.agentId),
                              Get(activeExperiments[i].agentIds))
                /\ (/\ call.ctx.agentId # Undefined
                    /\ Get(call.ctx.agentId) # <<>>
                    /\ InSeq(Get(call.ctx.agentId),
                             Get(activeExperiments[i].agentIds)))
                     => Evaluated(i)
           ELSE Evaluated(i)
    /\ (\A i \in 1..Len(activeExperiments) : ~Evaluated(i))
         => (result = Undefined /\ logged = <<>>)

\* a request of an agent outside the list: the restricted experiment is
\* skipped while an unrestricted one next to it is applied
AgentAllowListWitness ==
  /\ IsBuild
  /\ call.ctx.agentId # Undefined
  /\ result # Undefined
  /\ \E i, j \in 1..Len(activeExperiments) :
       /\ activeExperiments[i].agentIds # Undefined
       /\ Get(activeExperiments[i].agentIds) # <<>>
       /\ ~Evaluated(i)
       /\ Evaluated(j)

\* the admitted experiments whose assigned variant has a non-empty
\* systemPrompt
WithSystemPrompt ==
  {i \in AdmittedIndices :
     /\ Assigned(i).systemPrompt # Undefined
     /\ Get(Assigned(i).systemPrompt) # <<>>}

LastOf(indices) == CHOOSE i \in indices : \A j \in indices : j <= i

\* C14: systemPrompt merge rule. The systemPrompt of the overlay is the
\* systemPrompt of the assigned variant of the last non-skipped experiment,
\* in configured order, whose assigned variant has a non-empty systemPrompt;
\* without such an experiment the overlay has no systemPrompt.
SystemPromptLastWins ==
  IsBuild =>
    IF WithSystemPrompt = {}
      THEN result = Undefined \/ "systemPrompt" \notin DOMAIN Get(result)
      ELSE /\ result # Undefined
           /\ "systemPrompt" \in DOMAIN Get(result)
           /\ Get(result).systemPrompt =
                Get(Assigned(LastOf(WithSystemPrompt)).systemPrompt)

\* two experiments yielded different system prompts in one prompt build
SystemPromptLastWinsWitness ==
  /\ IsBuild
  /\ \E i, j \in WithSystemPrompt :
       /\ i < j
       /\ Assigned(i).systemPrompt # Assigned(j).systemPrompt

\* s without its leading and trailing white space
Stripped(s) ==
  LET inked == {i \in 1..Len(s) : s[i] \notin WhiteSpace}
  IN  IF inked = {} THEN <<>>
      ELSE SubSeq(s, CHOOSE i \in inked : \A j \in inked : i <= j,
                     CHOOSE i \in inked : \A j \in inked : j <= i)

\* the admitted experiments whose assigned variant has a prependContext
\* that is more than white space
WithPrepend ==
  {i \in AdmittedIndices :
     /\ Assigned(i).prependContext # Undefined
     /\ Stripped(Get(Assigned(i).prependContext)) # <<>>}

\* the parts, each followed by a blank line except the last
RECURSIVE BlankLineJoined(_)
BlankLineJoined(parts) ==
  IF Len(parts) = 1 THEN parts[1]
  ELSE BlankLineJoined(SubSeq(parts, 1, Len(parts) - 1))
         \o <<10, 10>> \o parts[Len(parts)]

\* C15: prependContext merge rule. The prependContext of the overlay is the
\* trimmed, non-empty prependContext values of the assigned variants of all
\* non-skipped experiments, in configured order, joined by a blank line;
\* without such a value the overlay has no prependContext.
PrependJoined ==
  IsBuild =>
    IF WithPrepend = {}
      THEN result = Undefined \/ "prependContext" \notin DOMAIN Get(result)
      ELSE /\ result # Undefined
           /\ "prependContext" \in DOMAIN Get(result)
           /\ Get(result).prependContext =
                BlankLineJoined(
                  [n \in 1..Cardinality(WithPrepend) |->
                     Stripped(Get(Assigned(NthOf(WithPrepend, n)).prependContext))])

\* two experiments contributed, one of them a text with surrounding white
\* space
PrependJoinedWitness ==
  /\ IsBuild
  /\ Cardinality(WithPrepend) >= 2
  /\ \E i \in WithPrepend :
       Stripped(Get(Assigned(i).prependContext))
         # Get(Assigned(i).prependContext)

\* C16: a prompt build returns undefined exactly when no non-skipped
\* experiment's assigned variant produced a systemPrompt or a non-blank
\* prependContext; otherwise it returns an object whose fields are exactly
\* those that were produced (never an object without fields).
UndefinedIffNothing ==
  IsBuild =>
    /\ result = Undefined <=> (WithSystemPrompt = {} /\ WithPrepend = {})
    /\ result # Undefined =>
         DOMAIN Get(result) =
           (IF WithSystemPrompt # {} THEN {"systemPrompt"} ELSE {})
             \cup (IF WithPrepend # {} THEN {"prependContext"} ELSE {})

\* a prompt build that evaluated an experiment whose variant has an empty
\* systemPrompt and a blank prependContext, and returned undefined
UndefinedIffNothingWitness ==
  /\ IsBuild
  /\ result = Undefined
  /\ \E i \in AdmittedIndices :
       /\ Assigned(i).systemPrompt = Some(<<>>)
       /\ Assigned(i).prependContext # Undefined

\* the identity key of a request
IdentityKey(ctx) ==
  IF ctx.sessionKey # Undefined THEN Get(ctx.sessionKey)
  ELSE IF ctx.sessionId # Undefined THEN Get(ctx.sessionId)
  ELSE <<97, 110, 111, 110, 121, 109, 111, 117, 115>>

\* "prompt-ab-test: assigned session=<key> experiment="
AssignedHead(sessionKey) ==
  <<112, 114, 111, 109, 112, 116, 45, 97, 98, 45, 116, 101, 115, 116, 58, 32,
    97, 115, 115, 105, 103, 110, 101, 100, 32,
    115, 101, 115, 115, 105, 111, 110, 61>>
    \o sessionKey
    \o <<32, 101, 120, 112, 101, 114, 105, 109, 101, 110, 116, 61>>

\* C17: a prompt build resolves the identity key as sessionKey when present,
\* otherwise sessionId when present, otherwise "anonymous": the assignments
\* of the experiments it evaluates are looked up, stored and logged under
\* that key, for every context.
IdentityResolved ==
  IsBuild =>
    /\ \A n \in 1..Len(resolvedNow) :
         resolvedNow[n].sessionKey = IdentityKey(call.ctx)
    /\ \A i \in AdmittedIndices :
         (IdentityKey(call.ctx) \o <<58>> \o Get(activeExperiments[i].id))
           \in DOMAIN assignmentCache
    /\ \A n \in 1..Len(logged) :
         StartsWith(logged[n].msg, AssignedHead(IdentityKey(call.ctx)))

\* a prompt build without sessionKey stored a new assignment under the
\* sessionId
IdentityResolvedWitness ==
  /\ IsBuild
  /\ call.ctx.sessionKey = Undefined
  /\ call.ctx.sessionId # Undefined
  /\ logged # <<>>

\* selectVariant has returned or thrown
Selected == returned # Undefined

\* the call threw
SelectThrew == "error" \in DOMAIN Get(returned)

\* C18: selectVariant throws for every seed when the variant list is empty;
\* for a non-empty list it does not throw and returns an element of the
\* list.
SelectTotalOnNonEmpty ==
  Selected =>
    IF args.variants = <<>> THEN SelectThrew
    ELSE /\ ~SelectThrew
         /\ \E i \in 1..Len(args.variants) : args.variants[i] = Get(returned)

\* a list of three variants and a seed that is not a number: the call
\* returned one of the three
SelectTotalOnNonEmptyWitness ==
  /\ Selected
  /\ Len(args.variants) = 3
  /\ args.seed.nan
  /\ Get(returned) \in {args.variants[i] : i \in 1..3}

\* some variant of the list has a positive weight (an omitted weight is 1)
SomePositive(variants) ==
  \E i \in 1..Len(variants) :
    variants[i].weight = Undefined \/ Get(variants[i].weight) > 0

\* C19: when at least one variant has a positive weight, selectVariant
\* returns, for every seed (here: every seed that is not NaN), a variant
\* whose weight is not 0.
ZeroWeightNeverSelected ==
  (Selected /\ ~args.seed.nan /\ SomePositive(args.variants)) =>
    Get(returned).weight # Some(0)

\* C20: when every variant's effective weight is 0 (all weights zero or
\* negative), selectVariant returns the first variant of the list for every
\* seed, without throwing.
AllZeroReturnsFirst ==
  (/\ Selected
   /\ args.variants # <<>>
   /\ \A i \in 1..Len(args.variants) :
        /\ args.variants[i].weight # Undefined
        /\ Get(args.variants[i].weight) <= 0) =>
    Get(returned) = args.variants[1]

\* a list with a zero and a negative weight and a seed beyond 1_000_000:
\* the first variant was returned
AllZeroReturnsFirstWitness ==
  /\ Selected
  /\ Len(args.variants) >= 2
  /\ \A i \in 1..Len(args.variants) :
       args.variants[i].weight \in {Some(0), Some(0 - 1)}
  /\ \E i \in 1..Len(args.variants) : args.variants[i].weight = Some(0 - 1)
  /\ args.seed.hi > 15
  /\ Get(returned) = args.variants[1]

\* C21: selectVariant on a single-element list [v] returns v for every seed,
\* whatever the weight of v (positive, zero, negative or omitted).
SingleAlwaysSelected ==
  (Selected /\ Len(args.variants) = 1) => Get(returned) = args.variants[1]

\* the only variant has a weight that is not positive and the seed is
\* negative or not a number: the variant was returned
SingleAlwaysSelectedWitness ==
  /\ Selected
  /\ Len(args.variants) = 1
  /\ args.variants[1].weight \in {Some(0), Some(0 - 1)}
  /\ args.seed.neg \/ args.seed.nan
  /\ Get(returned) = args.variants[1]

\* the run over the seeds 0 .. limit - 1 of the given pool is over
RunOver(pool) == args.variants = pool /\ args.seed = args.limit

\* C22: weight ratios are honoured over a run of seeds. For the pool
\* [heavy weight 9, light weight 1], the fraction of the 10,000 seeds
\* 0..9,999 for which selectVariant returns heavy is strictly greater than
\* 0.85 and strictly less than 0.95.
HeavyRatioInBand ==
  RunOver(HeavyLightPool) =>
    /\ counts[<<104, 101, 97, 118, 121>>] * 100 > 85 * 10000
    /\ counts[<<104, 101, 97, 118, 121>>] * 100 < 95 * 10000

\* C23: with a two-variant pool whose weights are both omitted, each of the
\* two variants is returned for at least one of the seeds 0..999.
BothDefaultsAppear ==
  RunOver(DefaultPool) =>
    /\ counts[<<97>>] > 0
    /\ counts[<<98>>] > 0

\* hashString has returned
Hashed == returned # Undefined

\* C24: hashString is total and its result is an integer in the unsigned
\* 32-bit range 0 .. 2^32 - 1 for every input string, also for strings long
\* enough that the untruncated accumulator would exceed 32 bits.
HashInRange ==
  Hashed =>
    /\ ~Get(returned).nan
    /\ ~Get(returned).neg
    /\ Get(returned).hi \in 0..65535
    /\ Get(returned).lo \in 0..65535

\* hashing the prefix of length k gives a value whose product with 33 has
\* more than 32 bits
Overflows(str, k) ==
  hashString(SubSeq(str, 1, k)).hi * 33
    + ((hashString(SubSeq(str, 1, k)).lo * 33) \div 65536) >= 65536

\* a string of the largest length for which the accumulator was cut to 32
\* bits in two different iterations
HashInRangeWitness ==
  /\ Hashed
  /\ Len(args.str) = MaxHashLen
  /\ \E j, k \in 0..(Len(args.str) - 1) :
       j < k /\ Overflows(args.str, j) /\ Overflows(args.str, k)

\* the k lowest bits of n, lowest first
RECURSIVE Bits(_, _)
Bits(n, k) == IF k = 0 THEN <<>> ELSE <<n % 2>> \o Bits(n \div 2, k - 1)

\* the 32 bits, lowest first, of the number hi * 2^16 + lo
BitsOf(hi, lo) == Bits(lo, 16) \o Bits(hi, 16)

\* the bits i..32 of a + b + carry, carries beyond bit 32 dropped
RECURSIVE AddBits(_, _, _, _)
AddBits(a, b, i, carry) ==
  IF i > 32 THEN <<>>
  ELSE <<(a[i] + b[i] + carry) % 2>>
         \o AddBits(a, b, i + 1, (a[i] + b[i] + carry) \div 2)

\* (h * 33) mod 2^32 = ((h * 32) + h) mod 2^32
Times33(h) == AddBits(<<0, 0, 0, 0, 0>> \o SubSeq(h, 1, 27), h, 1, 0)

\* the bits i..32 of a XOR b
RECURSIVE XorBits(_, _, _)
XorBits(a, b, i) ==
  IF i > 32 THEN <<>> ELSE <<(a[i] + b[i]) % 2>> \o XorBits(a, b, i + 1)

\* ((h * 33) XOR c) mod 2^32
RefStep(h, c) == XorBits(Times33(h), BitsOf(0, c), 1)

\* the reference recurrence from h over the code units of str
RECURSIVE RefHash(_, _)
RefHash(h, str) ==
  IF str = <<>> THEN h ELSE RefHash(RefStep(h, Head(str)), Tail(str))

\* C25: hashString(s) equals the reference recurrence h0 = 5381,
\* h(i+1) = ((h(i) * 33) XOR codeUnit(s[i])) mod 2^32 over the code units
\* of s in order; hashString("") = 5381.
HashIsReference ==
  Hashed =>
    /\ BitsOf(Get(returned).hi, Get(returned).lo)
         = RefHash(BitsOf(0, 5381), args.str)
    /\ args.str = <<>> => (Get(returned).hi = 0 /\ Get(returned).lo = 5381)

\* a string of several code units, the largest code unit among them, was
\* hashed to a value with bits in the upper half
HashIsReferenceWitness ==
  /\ Hashed
  /\ Len(args.str) >= 3
  /\ \E i \in 1..Len(args.str) : args.str[i] = 65535
  /\ Get(returned).hi > 0

\* the weight a variant counts with: 1 when omitted, 0 when negative
Clamped(v) ==
  IF v.weight = Undefined THEN 1
  ELSE IF Get(v.weight) < 0 THEN 0 ELSE Get(v.weight)

\* the sum of the weights the variants 1..i count with
RECURSIVE CumWeight(_, _)
CumWeight(variants, i) ==
  IF i = 0 THEN 0 ELSE CumWeight(variants, i - 1) + Clamped(variants[i])

TotalWeight(variants) == CumWeight(variants, Len(variants))

\* position = (Remainder / 1_000_000) * totalWeight for an integer seed
Remainder == SeedBucket(args.seed).val

\* selectVariant was called with an integer seed and a list whose total
\* weight is positive
SelectedByPosition ==
  /\ Selected
  /\ ~args.seed.nan
  /\ args.variants # <<>>
  /\ TotalWeight(args.variants) > 0

\* C26: whenever totalWeight > 0, the position selectVariant derives from
\* the seed lies in [0, totalWeight), for every integer seed.
PositionInRange ==
  SelectedByPosition =>
    /\ 0 <= Remainder * TotalWeight(args.variants)
    /\ Remainder * TotalWeight(args.variants)
         < TotalWeight(args.variants) * 1000000

\* the indices whose cumulative weight is strictly greater than position
Exceeding ==
  {i \in 1..Len(args.variants) :
     CumWeight(args.variants, i) * 1000000
       > Remainder * TotalWeight(args.variants)}

\* C27: whenever totalWeight > 0 (integer weights, integer seed),
\* selectVariant returns the variant with the smallest index whose
\* cumulative effective weight is strictly greater than position; such an
\* index exists, so the return-last-variant fallback is not reached, and
\* among variants with the same cumulative boundary the earliest wins.
FirstExceedingWins ==
  SelectedByPosition =>
    /\ Exceeding # {}
    /\ Get(returned) =
         args.variants[CHOOSE i \in Exceeding : \A j \in Exceeding : i <= j]

\* three variants, the second and the third with the same cumulative
\* boundary, and a position behind the first boundary: the second won
FirstExceedingWinsWitness ==
  /\ SelectedByPosition
  /\ Len(args.variants) = 3
  /\ CumWeight(args.variants, 1) < CumWeight(args.variants, 2)
  /\ CumWeight(args.variants, 2) = CumWeight(args.variants, 3)
  /\ Get(returned) = args.variants[2]

\* the list with every weight replaced by the weight it counts with
Normalized(variants) ==
  [i \in 1..Len(variants) |->
     [variants[i] EXCEPT !.weight = Some(Clamped(variants[i]))]]

\* C28: weight clamping and defaulting. For every variant list and seed,
\* selectVariant returns the variant at the same index as on the list in
\* which every weight w is replaced by max(0, w) and every omitted weight
\* by 1.
ClampedLikeNormalized ==
  (Selected /\ args.variants # <<>>) =>
    Get(returned).id = selectVariant(Normalized(args.variants), args.seed).id

\* a list with a negative weight before an omitted one: the variant with
\* the omitted weight was selected
ClampedLikeNormalizedWitness ==
  /\ Selected
  /\ ~args.seed.nan
  /\ \E i, j \in 1..Len(args.variants) :
       /\ i < j
       /\ args.variants[i].weight = Some(0 - 1)
       /\ args.variants[j].weight = Undefined
       /\ Get(returned) = args.variants[j]
  /\ Normalized(args.variants) # args.variants

\* the store keys of the experiments the request ctx is admitted to
AdmittedKeys(experiments, ctx) ==
  {IdentityKey(ctx) \o <<58>> \o Get(experiments[i].id) :
     i \in {j \in 1..Len(experiments) : Admits(experiments[j], ctx)}}

\* the experiments some prompt build evaluated under the session key
EvaluatedUnder(sessionKey) == {r.exp : r \in ResolvedFor(sessionKey)}

\* the report line that lists the given experiments
ReportOf(sessionKey, indices) ==
  ReportHead(sessionKey)
    \o Join([n \in 1..Cardinality(indices) |->
               PairText(activeExperiments[NthOf(indices, n)],
                 (CHOOSE r \in ResolvedFor(sessionKey) :
                    r.exp = NthOf(indices, n)).variant)], <<44, 32>>)
    \o <<93>>

\* a session-end report lists only experiments that a prompt build of the
\* session evaluated
ReportOmitsSkipped ==
  (IsEnd /\ logged # <<>>) =>
    \E indices \in SUBSET EvaluatedUnder(Get(EndSessionKey(call.ctx))) :
      logged[1].msg = ReportOf(Get(EndSessionKey(call.ctx)), indices)

\* C29: an experiment skipped by the agent allow-list is never evaluated. A
\* prompt build adds store entries only under the keys (identity key,
\* experiment) of the experiments it did not skip, and a session-end report
\* omits every experiment that was skipped in all prompt builds of the
\* session.
SkippedNeverEvaluated ==
  [][/\ call'.hook = "before_prompt_build" =>
          (DOMAIN assignmentCache') \ (DOMAIN assignmentCache)
            \subseteq AdmittedKeys(activeExperiments', call'.ctx)
     /\ ReportOmitsSkipped']_vars

\* the variants of the experiments after index from, one more for each
RECURSIVE SummarySteps(_, _)
SummarySteps(experiments, from) ==
  IF from >= Len(experiments) THEN 0
  ELSE Len(Get(experiments[from + 1].variants)) + 1
         + SummarySteps(experiments, from + 1)

\* an upper bound of the steps an invocation has left
Remaining(proc, experiments) ==
  CASE proc.pc = "filter" ->
         2 * (Len(proc.cfg) - proc.index + 1) + Len(proc.experiments) + 4
    [] proc.pc = "enabled" -> (Len(proc.experiments) - proc.index + 1) + 3
    [] proc.pc = "announce" -> 2
    [] proc.pc = "hooks" -> 1
    [] proc.pc = "read" -> 3 * (Len(experiments) - proc.index) + 3
    [] proc.pc = "compute" -> 3 * (Len(experiments) - proc.index) + 2
    [] proc.pc = "write" -> 3 * (Len(experiments) - proc.index) + 1
    [] proc.pc = "map" -> (Len(experiments) - proc.index + 1) + 2
    [] proc.pc = "report" -> 1
    [] proc.pc = "variants" ->
         SummarySteps(experiments, proc.index)
           + (Len(Get(experiments[proc.index].variants)) - proc.inner + 1) + 1
    [] OTHER -> 0

\* the bound of a whole invocation: linear in the number of configured
\* entries for register, and in the number of active experiments and of
\* their variants for a handler
StepBound(proc, experiments) ==
  IF proc.hook = "register" THEN 2 * Len(proc.cfg) + 4
  ELSE 3 * Len(experiments) + SummarySteps(experiments, 0) + 2

\* C30: every prompt-build, session-end and startup invocation, and
\* registration, runs to completion. Each step of an invocation lowers a
\* count that starts within a bound given by the number of active experiments
\* and their variants (of configured entries for registration); an invocation
\* that has not returned can always take its next step, whatever state the
\* other invocation is in; and the invocation whose steps are scheduled
\* returns although the other one is never scheduled.
RunsToCompletion ==
  /\ [][\A p \in Procs :
          procs'[p] # procs[p] =>
            /\ Remaining(procs'[p], activeExperiments') >= 0
            /\ IF Returned(procs[p])
                 THEN Remaining(procs'[p], activeExperiments')
                        <= StepBound(procs'[p], activeExperiments')
                 ELSE Remaining(procs'[p], activeExperiments')
                        < Remaining(procs[p], activeExperiments)]_vars
  /\ [](\A p \in Procs : ~Returned(procs[p]) => ENABLED LiveStep(p))
  /\ (~Returned(procs[1]) ~> procs[1].pc = "done")

\* invocation 1, a prompt build over two experiments, has returned while
\* invocation 2 is still inside its loop
RunsToCompletionWitness ==
  /\ procs[1].pc = "done"
  /\ procs[1].hook = "before_prompt_build"
  /\ Len(procs[1].got) = 2
  /\ ~Returned(procs[2])
  /\ procs[2].hook \in {"agent_end", "gateway_start", "before_prompt_build"}

\* the variants an experiment lists
OwnVariants(exp) == Range(Get(exp.variants))

\* the lists of report entries that name, for some of the experiments in
\* order, one of the experiment's own variants
RECURSIVE OwnEntryLists(_)
OwnEntryLists(experiments) ==
  IF experiments = <<>> THEN {<<>>}
  ELSE LET rest == OwnEntryLists(Tail(experiments))
       IN  rest \cup
             {<<PairText(Head(experiments), v)>> \o r :
                v \in OwnVariants(Head(experiments)), r \in rest}

\* the latest prompt build used, for every experiment, one of its variants
BuildUsesOwn ==
  IsBuild =>
    \A n \in 1..Len(resolvedNow) :
      resolvedNow[n].variant \in OwnVariants(activeExperiments[resolvedNow[n].exp])

\* the latest session-end report names, for every experiment, one of its
\* variants
ReportNamesOwn ==
  (IsEnd /\ logged # <<>>) =>
    \E entries \in OwnEntryLists(activeExperiments) :
      logged[1].msg = AssignmentsMsg(Get(EndSessionKey(call.ctx)), entries)

\* C31: the variant a prompt build uses for an active experiment E, and the
\* variant a session-end report names as E=<variantId>, is an element of E's
\* own variants list, also when ids or session keys contain ':' or two
\* active experiments carry the same id.
VariantOfOwnExperiment == BuildUsesOwn /\ ReportNamesOwn

\* the request carries neither sessionKey nor sessionId
LacksIdentity(ctx) == ctx.sessionKey = Undefined /\ ctx.sessionId = Undefined

\* "anonymous"
AnonymousKey == <<97, 110, 111, 110, 121, 109, 111, 117, 115>>

\* C32: all prompt builds that carry neither sessionKey nor sessionId are one
\* session. What such a build uses for an experiment is the store entry
\* under "anonymous:<id>", all such builds were handed the same variant for
\* the same experiment, two of them with equal agentId return equal
\* overlays, and a session end that lacks both identifiers reports nothing.
AnonymousShared ==
  /\ (IsBuild /\ LacksIdentity(call.ctx)) =>
       \A n \in 1..Len(resolvedNow) :
         /\ resolvedNow[n].sessionKey = AnonymousKey
         /\ AnonymousKey \o <<58>> \o Get(activeExperiments[resolvedNow[n].exp].id)
              \in DOMAIN assignmentCache
         /\ assignmentCache[AnonymousKey \o <<58>>
                              \o Get(activeExperiments[resolvedNow[n].exp].id)]
              = resolvedNow[n].variant
  /\ \A r1, r2 \in ResolvedFor(AnonymousKey) :
       r1.exp = r2.exp => r1.variant = r2.variant
  /\ (/\ IsBuild
      /\ LacksIdentity(call.ctx)
      /\ pinned # Undefined
      /\ LacksIdentity(Get(pinned).ctx)
      /\ Get(pinned).ctx.agentId = call.ctx.agentId) =>
       result = Get(pinned).overlay
  /\ (IsEnd /\ LacksIdentity(call.ctx)) => logged = <<>>

\* a second anonymous prompt build with the agentId of the pinned one has
\* returned an overlay built from two experiments
AnonymousSharedWitness ==
  /\ IsBuild
  /\ LacksIdentity(call.ctx)
  /\ pinned # Undefined
  /\ Get(pinned).again
  /\ Get(pinned).ctx = call.ctx
  /\ Len(resolvedNow) >= 2
  /\ result # Undefined

\* C33: selectVariant depends on a non-negative seed only through seed mod
\* 1,000,000: for every variant list and every seed >= 0, the call with seed
\* and the call with seed + 1,000,000 return the same variant (or both
\* throw).
SeedPeriodic == Len(returned) = 2 => returned[1] = returned[2]

\* both calls returned the second variant of a list, for a seed of at least
\* 2^31 - 1
SeedPeriodicWitness ==
  /\ Len(returned) = 2
  /\ Len(args.variants) >= 2
  /\ returned[1] = args.variants[2]
  /\ returned[2] = args.variants[2]
  /\ args.seed.hi >= 32767

====
